---- MODULE Spec2Model ----
(***************************************************************************)
(* Model of the complaint portal of src/complaint.go: two MongoDB         *)
(* collections (users, complaints) and the seven HTTP handlers that read  *)
(* and write them.  net/http serves every request in a goroutine of its   *)
(* own, so the handlers interleave at their storage round trips: every    *)
(* action below is one storage call of one handler together with the      *)
(* local computation around it.                                           *)
(***************************************************************************)
EXTENDS Integers, Sequences, FiniteSets, TLC

\* Number of HTTP requests served in one behaviour.
MaxReqs == 3

\* Length of the hex form of an ObjectID, and of a secret code.
HexLen == 24
CodeLen == 6

VARIABLES users, complaints, nextId, pc, op, local, resp, solo, overlap

vars == <<users, complaints, nextId, pc, op, local, resp, solo, overlap>>

Reqs == 1..MaxReqs

\* primitive.NilObjectID: the userId of a body that names none.
NilObjectID == 0

----------------------------------------------------------------------------
(* Strings that the code formats or parses, as sequences of characters.    *)

DigitChars == <<"0", "1", "2", "3", "4", "5", "6", "7", "8", "9">>
HexChars == DigitChars \o <<"a", "b", "c", "d", "e", "f">>

RECURSIVE Pow(_, _)
Pow(b, e) == IF e = 0 THEN 1 ELSE b * Pow(b, e - 1)

\* The values rand.Intn(1000000) yields in the model.
RandNums == {7, 123456}

\* fmt.Sprintf("%06d", n) for 0 <= n < 1000000.
generateSecretCode(n) ==
    [i \in 1..CodeLen |-> DigitChars[((n \div Pow(10, CodeLen - i)) % 10) + 1]]

\* ObjectID.Hex(): 24 lower-case hex digits (the model's identifiers are
\* below 16^6, so the leading 18 digits are zero).
Hex(id) ==
    [i \in 1..HexLen |->
        IF i <= HexLen - 6 THEN "0"
        ELSE HexChars[((id \div Pow(16, HexLen - i)) % 16) + 1]]

HexVal(c) ==
    CASE c = "0" -> 0 [] c = "1" -> 1 [] c = "2" -> 2 [] c = "3" -> 3
      [] c = "4" -> 4 [] c = "5" -> 5 [] c = "6" -> 6 [] c = "7" -> 7
      [] c = "8" -> 8 [] c = "9" -> 9
      [] c \in {"a", "A"} -> 10 [] c \in {"b", "B"} -> 11
      [] c \in {"c", "C"} -> 12 [] c \in {"d", "D"} -> 13
      [] c \in {"e", "E"} -> 14 [] c \in {"f", "F"} -> 15
      [] OTHER -> -1

RECURSIVE HexNum(_)
HexNum(s) ==
    IF Len(s) = 0 THEN 0
    ELSE 16 * HexNum(SubSeq(s, 1, Len(s) - 1)) + HexVal(s[Len(s)])

\* primitive.ObjectIDFromHex: [err |-> TRUE] unless s is 24 hex digits.
ObjectIDFromHex(s) ==
    IF Len(s) = HexLen /\ \A i \in 1..Len(s) : HexVal(s[i]) >= 0
    THEN [err |-> FALSE, oid |-> HexNum(s)]
    ELSE [err |-> TRUE, oid |-> NilObjectID]

----------------------------------------------------------------------------
(* The persistence calls.                                                  *)

\* A document matches a bson.M filter when it agrees on every key.
Matches(doc, filter) == \A key \in DOMAIN filter : doc[key] = filter[key]

\* Collection.FindOne(filter): the documents it may return (the first in
\* natural order, which the driver does not tie to insertion order).
FindOne(coll, filter) ==
    {coll[i] : i \in {j \in DOMAIN coll : Matches(coll[j], filter)}}

\* Collection.Find(filter) drained by cursor.Next: every matching document.
Find(coll, filter) == SelectSeq(coll, LAMBDA doc : Matches(doc, filter))

\* Collection.InsertOne.
InsertOne(coll, doc) == Append(coll, doc)

\* The document UpdateOne(bson.M{"_id": id}, ...) changes: the first match.
Target(coll, id) ==
    IF \E i \in DOMAIN coll : coll[i].id = id
    THEN {CHOOSE i \in DOMAIN coll :
            coll[i].id = id /\ \A j \in DOMAIN coll : coll[j].id = id => i <= j}
    ELSE {}

----------------------------------------------------------------------------
(* Requests.                                                               *)

InFlight(q) == pc[q] \notin {"idle", "done"}

\* Requests are taken in order of arrival.
CanStart(r) == pc[r] = "idle" /\ (IF r = 1 THEN TRUE ELSE pc[r - 1] # "idle")

\* A step of request r interleaves with every other request in flight:
\* solo[q] records that no other request has stepped since q arrived, and
\* overlap holds the pairs of submits that had both read the list of one
\* user when neither had written it.
Interleave(r) ==
    /\ solo' = [q \in Reqs |-> IF q # r /\ InFlight(q) THEN FALSE ELSE solo[q]]
    /\ overlap' = overlap \cup
          {{r, q} : q \in {x \in Reqs \ {r} :
                /\ pc[r] = "submit_find" /\ pc'[r] = "submit_update"
                /\ pc[x] = "submit_update"
                /\ local[x].user.id = local'[r].user.id}}

\* http.Error(w, msg, code) and json.NewEncoder(w).Encode(v).
Error(code, msg) == [status |-> code, body |-> msg]
Encode(v) == [status |-> 200, body |-> v]

Finish(r, response) ==
    /\ resp' = [resp EXCEPT ![r] = response]
    /\ pc' = [pc EXCEPT ![r] = "done"]

Init ==
    /\ users = <<>>
    /\ complaints = <<>>
    /\ nextId = 1
    /\ pc = [r \in Reqs |-> "idle"]
    /\ op = [r \in Reqs |-> [h |-> "none"]]
    /\ local = [r \in Reqs |-> [h |-> "none"]]
    /\ resp = [r \in Reqs |-> [status |-> 0, body |-> "none"]]
    /\ solo = [r \in Reqs |-> TRUE]
    /\ overlap = {}

\* The secretCode query values a client sends: every code the generator can
\* issue, and the same number without its padding.
CodeInputs == {generateSecretCode(n) : n \in RandNums} \cup {<<"7">>}

\* GET /login
loginHandler(r, F) ==
    /\ CanStart(r)
    /\ \E secretCode \in CodeInputs, ok \in F :
        LET found == IF ok THEN FindOne(users, [secretcode |-> secretCode])
                     ELSE {}
        IN  /\ op' = [op EXCEPT ![r] = [h |-> "login", secretCode |-> secretCode]]
            /\ IF found = {}
               THEN Finish(r, Error(404, "User not found"))
               ELSE \E user \in found : Finish(r, Encode(user))
    /\ Interleave(r)
    /\ UNCHANGED <<users, complaints, nextId, local>>

Names == {"A"}
Emails == {"a@x.com"}

\* Faulty variant: the list the body carried is kept.
NewUserKeepsList(body, id, n) ==
    [id |-> id, secretcode |-> generateSecretCode(n), name |-> body.name,
     email |-> body.email, complaints |-> body.complaints]

\* The user registerHandler stores: identifier, code and list are the
\* server's, whatever the body carried.
NewUser(body, id, n) ==
    [id |-> id, secretcode |-> generateSecretCode(n), name |-> body.name,
     email |-> body.email, complaints |-> <<>>]

\* POST /register
registerHandler(r, F) ==
    /\ CanStart(r)
    /\ \E decoded \in BOOLEAN, name \in Names, email \in Emails,
          sent \in {<<>>, <<NilObjectID>>}, n \in RandNums, ok \in F :
        LET body == [name |-> name, email |-> email, complaints |-> sent]
            user == NewUser(body, nextId, n)
        IN  /\ op' = [op EXCEPT ![r] = [h |-> "register", decoded |-> decoded]]
            /\ IF ~decoded
               THEN /\ Finish(r, Error(400, "bad request"))
                    /\ UNCHANGED <<users, nextId>>
               ELSE /\ nextId' = nextId + 1
                    /\ IF ok
                       THEN /\ users' = InsertOne(users, user)
                            /\ Finish(r, Encode(user))
                       ELSE /\ UNCHANGED users
                            /\ Finish(r, Error(500, "storage"))
    /\ Interleave(r)
    /\ UNCHANGED <<complaints, local>>

Titles == {"T"}
Summaries == {"s"}
Ratings == {3}

\* The complaint submitComplaintHandler stores: identifier and flag are the
\* server's, whatever the body carried.
NewComplaint(body, id) ==
    [id |-> id, title |-> body.title, summary |-> body.summary,
     rating |-> body.rating, resolved |-> FALSE, userid |-> body.userId]

\* Faulty variant: the identifier is not appended.
AppendComplaintForgets(user, id) == user

\* user.Complaints = append(user.Complaints, complaint.ID)
AppendComplaint(user, id) ==
    [user EXCEPT !.complaints = Append(user.complaints, id)]

\* Variant: the new identifier is pushed onto the stored list in one
\* storage operation ($push) instead of the whole list being replaced.
SetComplaintsPush(coll, id, list) ==
    [i \in DOMAIN coll |->
        IF i \in Target(coll, id)
        THEN [coll[i] EXCEPT !.complaints = Append(@, list[Len(list)])]
        ELSE coll[i]]

\* UpdateOne(bson.M{"_id": id}, $set complaints): the list read and extended
\* by this request replaces the stored one.
SetComplaints(coll, id, list) ==
    [i \in DOMAIN coll |->
        IF i \in Target(coll, id) THEN [coll[i] EXCEPT !.complaints = list]
        ELSE coll[i]]

\* Faulty variant: an error of the lookup or of the write fails the request.
SubmitResponseStrict(complaint, err) ==
    IF err # "nil" THEN Error(500, "storage") ELSE Encode(complaint)

\* The value of err after a storage call: nil, mongo.ErrNoDocuments when a
\* FindOne matched nothing, or the failure of the call.
ErrOf(ok, matched) ==
    IF ~ok THEN "failed" ELSE IF matched THEN "nil" ELSE "ErrNoDocuments"

\* json.NewEncoder(w).Encode(complaint): the response of a submit whose
\* insert succeeded, whatever err the lookup or the write left.
SubmitResponse(complaint, err) == Encode(complaint)

\* POST /submitComplaint, to the insert of the complaint.
submitComplaintHandler(r, F) ==
    /\ CanStart(r)
    /\ \E decoded \in BOOLEAN, title \in Titles, summary \in Summaries,
          rating \in Ratings, userId \in 0..(nextId - 1), sent \in BOOLEAN,
          ok \in F :
        LET body == [title |-> title, summary |-> summary, rating |-> rating,
                     userId |-> userId, resolved |-> sent]
            complaint == NewComplaint(body, nextId)
        IN  /\ op' = [op EXCEPT ![r] =
                        [h |-> "submit", decoded |-> decoded, userId |-> userId]]
            /\ IF ~decoded
               THEN /\ Finish(r, Error(400, "bad request"))
                    /\ UNCHANGED <<complaints, nextId, local>>
               ELSE /\ nextId' = nextId + 1
                    /\ IF ok
                       THEN /\ complaints' = InsertOne(complaints, complaint)
                            /\ pc' = [pc EXCEPT ![r] = "submit_find"]
                            /\ local' = [local EXCEPT ![r] =
                                            [h |-> "submit", complaint |-> complaint]]
                            /\ UNCHANGED resp
                       ELSE /\ Finish(r, Error(500, "storage"))
                            /\ UNCHANGED <<complaints, local>>
    /\ Interleave(r)
    /\ UNCHANGED users

\* submitComplaintHandler, the lookup of the owner.
submitFindUser(r, F) ==
    /\ pc[r] = "submit_find"
    /\ \E ok \in F :
        LET complaint == local[r].complaint
            found == IF ok THEN FindOne(users, [id |-> complaint.userid])
                     ELSE {}
        IN  IF found = {}
            THEN /\ Finish(r, SubmitResponse(complaint, ErrOf(ok, FALSE)))
                 /\ local' = [local EXCEPT ![r] =
                        [h |-> "submit", complaint |-> complaint,
                         err |-> ErrOf(ok, FALSE)]]
            ELSE \E user \in found :
                 /\ local' = [local EXCEPT ![r] =
                        [h |-> "submit", complaint |-> complaint,
                         user |-> AppendComplaint(user, complaint.id)]]
                 /\ pc' = [pc EXCEPT ![r] = "submit_update"]
                 /\ UNCHANGED resp
    /\ Interleave(r)
    /\ UNCHANGED <<users, complaints, nextId, op>>

\* submitComplaintHandler, the write of the owner's list and the response.
submitUpdateUser(r, F) ==
    /\ pc[r] = "submit_update"
    /\ \E ok \in F :
        /\ users' = IF ok
                    THEN SetComplaints(users, local[r].user.id,
                                       local[r].user.complaints)
                    ELSE users
        /\ local' = [local EXCEPT ![r] =
                        [h |-> "submit", complaint |-> local[r].complaint,
                         user |-> local[r].user, err |-> ErrOf(ok, TRUE)]]
        /\ Finish(r, SubmitResponse(local[r].complaint, ErrOf(ok, TRUE)))
    /\ Interleave(r)
    /\ UNCHANGED <<complaints, nextId, op>>

\* Faulty variant: the filter names the complaint's own identifier.
OwnedByWrongKey(user) == [id |-> user.id]

\* The filter bson.M{"userid": user.ID}.
OwnedBy(user) == [userid |-> user.id]

\* json.Encode of a []Complaint: a nil slice (no document appended) is null.
EncodeList(list) ==
    IF Len(list) = 0 THEN [json |-> "null", items |-> <<>>]
    ELSE [json |-> "array", items |-> list]

\* GET /getAllComplaintsForUser, the lookup of the user.
getAllComplaintsForUserHandler(r, F) ==
    /\ CanStart(r)
    /\ \E secretCode \in CodeInputs, ok \in F :
        LET found == IF ok THEN FindOne(users, [secretcode |-> secretCode])
                     ELSE {}
        IN  /\ op' = [op EXCEPT ![r] = [h |-> "listForUser", secretCode |-> secretCode]]
            /\ IF found = {}
               THEN /\ Finish(r, Error(404, "User not found"))
                    /\ UNCHANGED local
               ELSE \E user \in found :
                    /\ local' = [local EXCEPT ![r] = [h |-> "listForUser", user |-> user]]
                    /\ pc' = [pc EXCEPT ![r] = "list_find"]
                    /\ UNCHANGED resp
    /\ Interleave(r)
    /\ UNCHANGED <<users, complaints, nextId>>

\* getAllComplaintsForUserHandler, the query of the complaints.
listFindComplaints(r, F) ==
    /\ pc[r] = "list_find"
    /\ \E ok \in F :
        IF ok
        THEN Finish(r, Encode(EncodeList(
                Find(complaints, OwnedBy(local[r].user)))))
        ELSE Finish(r, Error(500, "storage"))
    /\ Interleave(r)
    /\ UNCHANGED <<users, complaints, nextId, op, local>>

\* GET /getAllComplaintsForAdmin
getAllComplaintsForAdminHandler(r, F) ==
    /\ CanStart(r)
    /\ op' = [op EXCEPT ![r] = [h |-> "listAll"]]
    /\ \E ok \in F :
        IF ok
        THEN Finish(r, Encode(EncodeList(Find(complaints, <<>>))))
        ELSE Finish(r, Error(500, "storage"))
    /\ Interleave(r)
    /\ UNCHANGED <<users, complaints, nextId, local>>

\* The complaintId query values a client sends: the hex form of every
\* identifier issued so far and of the next one, in either case of letters,
\* and two strings that are no ObjectID.
IdInputs ==
    {Hex(i) : i \in 1..nextId}
        \cup {<<"x", "y", "z">>, [i \in 1..HexLen |-> IF i = 1 THEN "g" ELSE "0"]}

\* GET /viewComplaint
viewComplaintHandler(r, F) ==
    /\ CanStart(r)
    /\ \E complaintID \in IdInputs, ok \in F :
        LET parsed == ObjectIDFromHex(complaintID)
            found == IF ok THEN FindOne(complaints, [id |-> parsed.oid])
                     ELSE {}
        IN  /\ op' = [op EXCEPT ![r] = [h |-> "view", complaintId |-> complaintID]]
            /\ IF parsed.err
               THEN Finish(r, Error(400, "Invalid complaint ID"))
               ELSE IF found = {}
               THEN Finish(r, Error(404, "Complaint not found"))
               ELSE \E complaint \in found : Finish(r, Encode(complaint))
    /\ Interleave(r)
    /\ UNCHANGED <<users, complaints, nextId, local>>

\* Faulty variant: the flag is flipped.
MarkResolvedToggle(complaint) ==
    [complaint EXCEPT !.resolved = ~complaint.resolved]

\* complaint.Resolved = true
MarkResolved(complaint) == [complaint EXCEPT !.resolved = TRUE]

\* Faulty variant: the filter is lost and every complaint is updated.
SetResolvedAll(coll, id, flag) ==
    [i \in DOMAIN coll |-> [coll[i] EXCEPT !.resolved = flag]]

\* UpdateOne(bson.M{"_id": oid}, $set resolved).
SetResolved(coll, id, flag) ==
    [i \in DOMAIN coll |->
        IF i \in Target(coll, id) THEN [coll[i] EXCEPT !.resolved = flag]
        ELSE coll[i]]

\* POST /resolveComplaint, to the lookup of the complaint.
resolveComplaintHandler(r, F) ==
    /\ CanStart(r)
    /\ \E complaintID \in IdInputs, ok \in F :
        LET parsed == ObjectIDFromHex(complaintID)
            found == IF ok THEN FindOne(complaints, [id |-> parsed.oid])
                     ELSE {}
        IN  /\ op' = [op EXCEPT ![r] = [h |-> "resolve", complaintId |-> complaintID]]
            /\ IF parsed.err
               THEN /\ Finish(r, Error(400, "Invalid complaint ID"))
                    /\ UNCHANGED local
               ELSE IF found = {}
               THEN /\ Finish(r, Error(404, "Complaint not found"))
                    /\ UNCHANGED local
               ELSE \E complaint \in found :
                    /\ local' = [local EXCEPT ![r] =
                            [h |-> "resolve", oid |-> parsed.oid,
                             complaint |-> MarkResolved(complaint)]]
                    /\ pc' = [pc EXCEPT ![r] = "resolve_update"]
                    /\ UNCHANGED resp
    /\ Interleave(r)
    /\ UNCHANGED <<users, complaints, nextId>>

\* resolveComplaintHandler, the write of the flag and the response.
resolveUpdate(r, F) ==
    /\ pc[r] = "resolve_update"
    /\ \E ok \in F :
        IF ok
        THEN /\ complaints' = SetResolved(complaints, local[r].oid,
                                          local[r].complaint.resolved)
             /\ Finish(r, Encode(local[r].complaint))
        ELSE /\ UNCHANGED complaints
             /\ Finish(r, Error(500, "storage"))
    /\ Interleave(r)
    /\ UNCHANGED <<users, nextId, op, local>>

Next(F) ==
    \E r \in Reqs :
        \/ loginHandler(r, F)
        \/ registerHandler(r, F)
        \/ submitComplaintHandler(r, F)
        \/ submitFindUser(r, F)
        \/ submitUpdateUser(r, F)
        \/ getAllComplaintsForUserHandler(r, F)
        \/ listFindComplaints(r, F)
        \/ getAllComplaintsForAdminHandler(r, F)
        \/ viewComplaintHandler(r, F)
        \/ resolveComplaintHandler(r, F)
        \/ resolveUpdate(r, F)

\* Every storage call succeeds.
Spec == Init /\ [][Next({TRUE})]_vars

\* A storage call may fail.
SpecFault == Init /\ [][Next(BOOLEAN)]_vars

----------------------------------------------------------------------------
(* Vocabulary of the properties.                                           *)

Range(seq) == {seq[i] : i \in DOMAIN seq}

IsPrefix(s, t) == Len(s) <= Len(t) /\ SubSeq(t, 1, Len(s)) = s

Done(r, h) == pc[r] = "done" /\ op[r].h = h

\* Request r is a submit whose insert succeeded / whose owner was found.
Inserted(r) == op[r].h = "submit" /\ local[r].h = "submit"
Linked(r) == Inserted(r) /\ "user" \in DOMAIN local[r]

\* The step in which request r goes from position a to position b.
Moves(r, a, b) == pc[r] = a /\ pc'[r] = b

\* The step in which request r arrives as a call of handler h.
Arrives(r, h) == pc[r] = "idle" /\ pc'[r] # "idle" /\ op'[r].h = h

Quiet == \A r \in Reqs : ~InFlight(r)

Raced(a, b) ==
    /\ a # b /\ Done(a, "submit") /\ Done(b, "submit")
    /\ {a, b} \in overlap

StoredList(id) == (CHOOSE u \in Range(users) : u.id = id).complaints

\* C2: when two submits for one user that both read the user's list before
\* either wrote it have finished, both complaints are stored, both responses
\* are 200 with the created complaint, and the user's stored list does not
\* hold both identifiers.
C2_LostUpdate ==
    \A a, b \in Reqs :
        Raced(a, b) =>
            /\ local[a].user.id = local[b].user.id
            /\ \A x \in {a, b} :
                /\ resp[x].status = 200
                /\ resp[x].body = local[x].complaint
                /\ \E c \in Range(complaints) : c.id = local[x].complaint.id
            /\ ~(/\ local[a].complaint.id \in Range(StoredList(local[a].user.id))
                 /\ local[b].complaint.id \in Range(StoredList(local[a].user.id)))

\* Two submits raced, and the stored list holds exactly one of their
\* identifiers.
C2_Witness ==
    \E a, b \in Reqs :
        /\ Raced(a, b)
        /\ local[b].complaint.id \in Range(StoredList(local[a].user.id))
        /\ local[a].complaint.id \notin Range(StoredList(local[a].user.id))

\* C3: once no request is in flight, the identifier of every stored
\* complaint whose userId is the identifier of a stored user is in that
\* user's list.
C3_EveryComplaintListed ==
    Quiet =>
        \A c \in Range(complaints) : \A u \in Range(users) :
            c.userid = u.id => c.id \in Range(u.complaints)

\* C4: in every step the stored list of every user extends the list stored
\* before the step.
C4_AppendOnly ==
    [][\A i \in DOMAIN users :
          IsPrefix(users[i].complaints, users'[i].complaints)]_vars

\* C5: a step never changes a stored complaint's identifier, never takes a
\* stored resolved flag from true to false, and stores a new complaint with
\* resolved = false; a view that finds a complaint for which a resolve has
\* already answered 200 returns it with resolved = true.
C5_ResolvedMonotonic ==
    [][/\ \A i \in DOMAIN complaints :
            /\ i \in DOMAIN complaints'
            /\ complaints'[i].id = complaints[i].id
            /\ complaints[i].resolved => complaints'[i].resolved
       /\ \A i \in DOMAIN complaints' \ DOMAIN complaints :
            ~complaints'[i].resolved
       /\ \A v, q \in Reqs :
            (/\ Arrives(v, "view") /\ resp'[v].status = 200
             /\ Done(q, "resolve") /\ resp[q].status = 200
             /\ resp[q].body.id = resp'[v].body.id)
            => resp'[v].body.resolved
      ]_vars

\* A view answered resolved = true after a resolve of the same complaint
\* answered 200.
C5_Witness ==
    \E v, q \in Reqs :
        /\ q < v /\ Done(q, "resolve") /\ resp[q].status = 200
        /\ Done(v, "view") /\ resp[v].status = 200
        /\ resp[v].body.id = resp[q].body.id
        /\ resp[v].body.resolved

Stored(id) == \E c \in Range(complaints) : c.id = id

\* C6: a resolve naming a stored complaint goes on to the write, whatever
\* the complaint's flag; the write answers 200 with that complaint and
\* resolved = true, leaves the users untouched and changes nothing in the
\* complaints but the resolved flag of that one complaint, which it sets; so
\* on a complaint already resolved it changes nothing at all.
C6_ResolveIdempotent ==
    [][\A r \in Reqs :
        /\ (Arrives(r, "resolve")
              /\ ~ObjectIDFromHex(op'[r].complaintId).err
              /\ Stored(ObjectIDFromHex(op'[r].complaintId).oid))
           => pc'[r] = "resolve_update"
        /\ Moves(r, "resolve_update", "done")
           => /\ resp'[r].status = 200
              /\ resp'[r].body.id = ObjectIDFromHex(op[r].complaintId).oid
              /\ resp'[r].body.resolved
              /\ users' = users
              /\ DOMAIN complaints' = DOMAIN complaints
              /\ \A i \in DOMAIN complaints :
                    complaints'[i] =
                        IF complaints[i].id = resp'[r].body.id
                        THEN [complaints[i] EXCEPT !.resolved = TRUE]
                        ELSE complaints[i]
              /\ (\A c \in Range(complaints) :
                    c.id = resp'[r].body.id => c.resolved)
                 => complaints' = complaints
      ]_vars

\* Two resolves of one complaint, one after the other, both answered 200
\* with resolved = true.
C6_Witness ==
    \E a, b \in Reqs :
        /\ a < b /\ Done(a, "resolve") /\ Done(b, "resolve")
        /\ solo[a] /\ solo[b]
        /\ resp[a].status = 200 /\ resp[b].status = 200
        /\ resp[a].body.id = resp[b].body.id
        /\ resp[b].body.resolved

\* A finished submit whose insert succeeded answered 200 with the complaint
\* it created, resolved = false, under an identifier no other document
\* carries, and the complaint is stored as created (but for its flag).
SubmitAnswered(r) ==
    LET c == local[r].complaint
    IN  /\ resp[r] = [status |-> 200, body |-> c]
        /\ ~c.resolved
        /\ \A u \in Range(users) : u.id # c.id
        /\ Cardinality({i \in DOMAIN complaints : complaints[i].id = c.id}) = 1
        /\ \E s \in Range(complaints) : [s EXCEPT !.resolved = FALSE] = c

\* C7: once its insert has succeeded, a submit answers 200 with the created
\* complaint (fresh identifier, resolved = false) and the complaint stays
\* stored, also when no user has its userId and when the write of the list
\* fails; a submit that ends at the lookup modifies no user document.
C7_SubmitBestEffort ==
    [][/\ \A r \in Reqs :
            (Inserted(r)' /\ pc'[r] = "done") => SubmitAnswered(r)'
       /\ \A r \in Reqs : Moves(r, "submit_find", "done") => users' = users
      ]_vars

\* One submit whose list write failed and one whose userId names no user,
\* both answered 200, both complaints stored.
C7_Witness ==
    \E a, b \in Reqs :
        /\ Done(a, "submit") /\ Linked(a) /\ local[a].err = "failed"
        /\ resp[a].status = 200 /\ Stored(local[a].complaint.id)
        /\ local[a].complaint.id \notin Range(StoredList(local[a].user.id))
        /\ Done(b, "submit") /\ Inserted(b) /\ ~Linked(b)
        /\ local[b].err = "ErrNoDocuments"
        /\ ~\E u \in Range(users) : u.id = local[b].complaint.userid
        /\ resp[b].status = 200 /\ Stored(local[b].complaint.id)

\* Registration g, answered before login l arrived, issued the code l sent.
Issued(g, l) ==
    /\ g < l /\ Done(g, "register") /\ resp[g].status = 200
    /\ resp[g].body.secretcode = op[l].secretCode

\* C8: a login with a code no registration issued answers 404, and a login
\* with the code a registration returned answers with the user that
\* registration created.
C8_LoginReturnsRegistered ==
    \A l \in Reqs :
        Done(l, "login") =>
            /\ (~\E g \in Reqs : Issued(g, l)) => resp[l].status = 404
            /\ \A g \in Reqs :
                Issued(g, l) =>
                    /\ resp[l].status = 200
                    /\ resp[l].body.id = resp[g].body.id
                    /\ resp[l].body.name = resp[g].body.name
                    /\ resp[l].body.email = resp[g].body.email
                    /\ resp[l].body.secretcode = resp[g].body.secretcode

\* C9: listForUser answers 404 exactly when no user has the code, and
\* otherwise matches a stored user with that code and answers 200 with the
\* stored complaints whose userId is that user's identifier: each of them
\* once, and no other.
C9_ListForUserExact ==
    [][\A r \in Reqs :
        /\ Arrives(r, "listForUser")
           => LET holders == {u \in Range(users) :
                                u.secretcode = op'[r].secretCode}
              IN  IF holders = {}
                  THEN pc'[r] = "done" /\ resp'[r].status = 404
                  ELSE pc'[r] = "list_find" /\ local'[r].user \in holders
        /\ Moves(r, "list_find", "done")
           => LET owned == {c \in Range(complaints) :
                                c.userid = local[r].user.id}
                  items == resp'[r].body.items
              IN  /\ resp'[r].status = 200
                  /\ Range(items) = owned
                  /\ Len(items) = Cardinality(owned)
      ]_vars

\* A listing returned a complaint whose identifier the user's stored list
\* does not hold.
C9_Witness ==
    \E r \in Reqs :
        /\ Done(r, "listForUser") /\ resp[r].status = 200
        /\ \E c \in Range(resp[r].body.items) :
            c.id \notin Range(StoredList(local[r].user.id))

\* C10: every identifier in a user's stored list is the identifier of a
\* stored complaint whose userId is that user's identifier, and occurs in
\* the list once.
C10_BackReferencesValid ==
    \A u \in Range(users) :
        /\ \A k \in DOMAIN u.complaints :
            \E c \in Range(complaints) :
                c.id = u.complaints[k] /\ c.userid = u.id
        /\ Cardinality(Range(u.complaints)) = Len(u.complaints)

\* A user whose stored list holds two identifiers.
C10_Witness == \E u \in Range(users) : Len(u.complaints) = 2
====
